---- MODULE Spec2Model ----
(***************************************************************************)
(* Customer analytics engines of customer_behavior_class.py                *)
(* (CustomerIntelligence) over the cleaned transaction table produced by   *)
(* data_processor_class.py.                                                *)
(*                                                                         *)
(* Modelling conventions                                                   *)
(*  - A DataFrame whose row order is irrelevant to every reader is a set   *)
(*    of records (the transaction table) or a function keyed by its index  *)
(*    (a groupby result keyed by CustomerID, in ascending key order).      *)
(*    A DataFrame whose row order is observable is a sequence of records.  *)
(*  - Dates are day numbers; a month has 30 days; month ordinals            *)
(*    start at December of year 0 so that a year boundary is crossed.      *)
(*  - Floating point quotients are kept exact: a ratio is <<num, den>>,    *)
(*    a quantile edge is kept multiplied by the number of quantiles.       *)
(*  - Python's None is the empty sequence, a set attribute is <<value>>.   *)
(*  - A string that a regular expression reads is a sequence of            *)
(*    one-character strings.                                               *)
(***************************************************************************)
EXTENDS Integers, Sequences, FiniteSets, TLC

VARIABLES
    df,                 \* self.df: the shared cleaned transaction table
    rfm,                \* self.rfm
    clv_table,          \* self.clv_table
    retention,          \* self.retention
    customer_revenue,   \* self.customer_revenue
    grouped_df,         \* self.grouped_df
    customer_country,   \* self.customer_country
    ret,                \* outcome of the last engine call (return value or raised error)
    cleaned_dataset,    \* the table as it was handed to __init__ (history variable)
    pc,                 \* DataPipeline.run: the call it makes next ("" when no run)
    calls,              \* DataPipeline.run: the calls it has made (history variable)
    result              \* DataPipeline.run: its outcome once it has ended

vars == <<df, rfm, clv_table, retention, customer_revenue, grouped_df,
          customer_country, ret, cleaned_dataset, pc, calls, result>>

-----------------------------------------------------------------------------
(* Bounds of the input tables *)

NumCustomers == 2      \* customers of a transaction table
NumBase == 7           \* regular customers of a scoring table

-----------------------------------------------------------------------------
(* Generic helpers *)

None == <<>>
Some(x) == <<x>>

Max(S) == CHOOSE x \in S : \A y \in S : y <= x
Min(S) == CHOOSE x \in S : \A y \in S : x <= y

RECURSIVE SumRevenue(_)
SumRevenue(S) ==
    IF S = {} THEN 0
    ELSE LET r == CHOOSE r \in S : TRUE
         IN  r.TotalRevenue + SumRevenue(S \ {r})

RECURSIVE SumOver(_, _)
SumOver(f, S) ==
    IF S = {} THEN 0
    ELSE LET i == CHOOSE i \in S : TRUE
         IN  f[i] + SumOver(f, S \ {i})

-----------------------------------------------------------------------------
(* The cleaned transaction table: DataProcessor.clean_data, add_time_feature *)

\* InvoiceNo.str.startswith('C'): the invoice number is <<prefix, customer, serial>>
StartsWithC(inv) == inv[1] = "C"

\* dt.to_period('M'): the month ordinal of a day in a calendar of 30-day
\* months; ordinal 11 is December of year 0
ToPeriodM(day) == 11 + (day \div 30)

PeriodYear(p) == p \div 12
PeriodMonth(p) == (p % 12) + 1

CountryOf(c) == IF c = 1 THEN "United Kingdom" ELSE "France"

\* One row of the table after clean_data and add_time_feature
CleanRow(c, serial, day, cancelled, revenue) ==
    LET inv == <<IF cancelled THEN "C" ELSE "", c, serial>>
    IN  [CustomerID       |-> c,
         InvoiceNo        |-> inv,
         InvoiceDate      |-> day,
         YearMonth        |-> ToPeriodM(day),
         TotalRevenue     |-> revenue,
         CancelledInvoice |-> StartsWithC(inv),
         Country          |-> CountryOf(c)]

CustomersOf(d) == {r.CustomerID : r \in d}
RowsOf(d, c) == {r \in d : r.CustomerID = c}

-----------------------------------------------------------------------------
(* pandas.qcut(x, q, labels): x is a function from row keys to numbers *)

\* 0-based position of key i in the ascending order of x, ties in key order
SortPos(x, i) ==
    Cardinality({j \in DOMAIN x : x[j] < x[i] \/ (x[j] = x[i] /\ j < i)})

SortedValues(x) ==
    [p \in 0..(Cardinality(DOMAIN x) - 1) |->
        x[CHOOSE i \in DOMAIN x : SortPos(x, i) = p]]

\* Series.rank(method='first')
RankFirst(x) == [i \in DOMAIN x |-> SortPos(x, i) + 1]

\* x.quantile(linspace(0, 1, q + 1)) with linear interpolation, every edge
\* multiplied by q
QuantileEdges(x, q) ==
    LET n == Cardinality(DOMAIN x)
        s == SortedValues(x)
    IN  [k \in 0..q |->
            LET pos == k * (n - 1)
                lo  == pos \div q
                fr  == pos % q
                hi  == IF lo + 1 <= n - 1 THEN lo + 1 ELSE lo
            IN  q * s[lo] + fr * (s[hi] - s[lo])]

EdgesUnique(e) == \A k1, k2 \in DOMAIN e : k1 # k2 => e[k1] # e[k2]

\* Mutant of BinId: searchsorted with side='right' (left-closed bins)
BinIdRight(e, q, v) ==
    IF q * v = e[0] THEN 1
    ELSE Cardinality({k \in DOMAIN e : e[k] <= q * v})

\* bins.searchsorted(v, side='left'), then include_lowest
BinId(e, q, v) ==
    IF q * v = e[0] THEN 1
    ELSE Cardinality({k \in DOMAIN e : e[k] < q * v})

\* The label of v; -1 is the code of a value that falls in no bin (NaN)
BinLabel(e, q, labels, v) ==
    LET id == BinId(e, q, v)
    IN  IF id = 0 \/ id = q + 1 THEN -1 ELSE labels[id]

\* err: "Bin edges must be unique" (ValueError), also raised on an empty x
Qcut(x, q, labels) ==
    IF DOMAIN x = {} THEN [err |-> TRUE, codes |-> x]
    ELSE LET e == QuantileEdges(x, q)
         IN  IF ~EdgesUnique(e) THEN [err |-> TRUE, codes |-> x]
             ELSE [err |-> FALSE,
                   codes |-> [i \in DOMAIN x |-> BinLabel(e, q, labels, x[i])]]

-----------------------------------------------------------------------------
(* Series.replace(segs, regex=True) on strings given as character sequences *)

Str_Lost == <<"L","o","s","t">>
Str_AtRisk == <<"A","t"," ","r","i","s","k">>
Str_CantLose == <<"C","a","n","'","t"," ","l","o","s","e">>
Str_AboutToSleep == <<"A","b","o","u","t"," ","t","o"," ","s","l","e","e","p">>
Str_NeedAttention == <<"N","e","e","d"," ","a","t","t","e","n","t","i","o","n">>
Str_Promising == <<"P","r","o","m","i","s","i","n","g">>
Str_LoyalCustomer == <<"L","o","y","a","l"," ","c","u","s","t","o","m","e","r">>
Str_NewCustomers == <<"N","e","w"," ","c","u","s","t","o","m","e","r","s">>
Str_PotentialLoyalist == <<"P","o","t","e","n","t","i","a","l"," ","L","o","y","a","l","i","s","t">>
Str_Champion == <<"C","h","a","m","p","i","o","n">>

\* Mutant of segs: the Promising pattern typed as '14'
segsPromisingTypo ==
    << [pat |-> <<{"1","2"}, {"1","2"}>>, label |-> Str_Lost],
       [pat |-> <<{"1","2"}, {"3","4"}>>, label |-> Str_AtRisk],
       [pat |-> <<{"1","2"}, {"5"}>>,     label |-> Str_CantLose],
       [pat |-> <<{"3"}, {"1","2"}>>,     label |-> Str_AboutToSleep],
       [pat |-> <<{"3"}, {"3"}>>,         label |-> Str_NeedAttention],
       [pat |-> <<{"1"}, {"4"}>>,         label |-> Str_Promising],
       [pat |-> <<{"3","4"}, {"4","5"}>>, label |-> Str_LoyalCustomer],
       [pat |-> <<{"5"}, {"1"}>>,         label |-> Str_NewCustomers],
       [pat |-> <<{"4","5"}, {"2","3"}>>, label |-> Str_PotentialLoyalist],
       [pat |-> <<{"5"}, {"4","5"}>>,     label |-> Str_Champion] >>

\* The rule table of build_rfm, in dictionary order; a pattern is a sequence
\* of character classes
segs ==
    << [pat |-> <<{"1","2"}, {"1","2"}>>, label |-> Str_Lost],
       [pat |-> <<{"1","2"}, {"3","4"}>>, label |-> Str_AtRisk],
       [pat |-> <<{"1","2"}, {"5"}>>,     label |-> Str_CantLose],
       [pat |-> <<{"3"}, {"1","2"}>>,     label |-> Str_AboutToSleep],
       [pat |-> <<{"3"}, {"3"}>>,         label |-> Str_NeedAttention],
       [pat |-> <<{"4"}, {"1"}>>,         label |-> Str_Promising],
       [pat |-> <<{"3","4"}, {"4","5"}>>, label |-> Str_LoyalCustomer],
       [pat |-> <<{"5"}, {"1"}>>,         label |-> Str_NewCustomers],
       [pat |-> <<{"4","5"}, {"2","3"}>>, label |-> Str_PotentialLoyalist],
       [pat |-> <<{"5"}, {"4","5"}>>,     label |-> Str_Champion] >>

\* astype(str) of a score
ScoreStr(n) ==
    CASE n = 1 -> <<"1">>
      [] n = 2 -> <<"2">>
      [] n = 3 -> <<"3">>
      [] n = 4 -> <<"4">>
      [] n = 5 -> <<"5">>
      [] OTHER -> <<"n","a","n">>

\* pat matches s at 1-based offset o
MatchAt(pat, s, o) ==
    /\ o + Len(pat) - 1 <= Len(s)
    /\ \A j \in 1..Len(pat) : s[o + j - 1] \in pat[j]

\* re.search(pat, s) is not None
ReSearch(pat, s) == \E o \in 1..Len(s) : MatchAt(pat, s, o)

\* re.sub(pat, repl, s): leftmost non-overlapping matches, scanning from o
RECURSIVE ReSubFrom(_, _, _, _)
ReSubFrom(pat, repl, s, o) ==
    IF o > Len(s) THEN <<>>
    ELSE IF MatchAt(pat, s, o)
         THEN repl \o ReSubFrom(pat, repl, s, o + Len(pat))
         ELSE <<s[o]>> \o ReSubFrom(pat, repl, s, o + 1)

ReSub(pat, repl, s) == ReSubFrom(pat, repl, s, 1)

\* Block.replace_list: every rule's mask is computed on the original value,
\* the substitutions are applied one rule after the other
RECURSIVE ReplaceList(_, _, _, _)
ReplaceList(rules, orig, cur, k) ==
    IF k > Len(rules) THEN cur
    ELSE ReplaceList(rules, orig,
                     IF ReSearch(rules[k].pat, orig)
                     THEN ReSub(rules[k].pat, rules[k].label, cur)
                     ELSE cur,
                     k + 1)

ReplaceRegex(rules, s) == ReplaceList(rules, s, s, 1)

-----------------------------------------------------------------------------
(* CustomerIntelligence.build_rfm *)

SnapshotDate(d) == Max({r.InvoiceDate : r \in d}) + 1

\* groupby('CustomerID').agg(InvoiceDate -> recency, TotalRevenue -> sum)
RecencyMonetary(d) ==
    [c \in CustomersOf(d) |->
        [Recency  |-> SnapshotDate(d) - Max({r.InvoiceDate : r \in RowsOf(d, c)}),
         Monetary |-> SumRevenue(RowsOf(d, c))]]

\* unique non-cancelled invoices per customer
FrequencyDf(d) ==
    LET kept == {r \in d : r.CancelledInvoice = FALSE}
    IN  [c \in CustomersOf(kept) |->
            Cardinality({r.InvoiceNo : r \in RowsOf(kept, c)})]

\* pd.merge(rfm, frequency_df, on='CustomerID'): inner join
MergeOnCustomer(rm, fr) ==
    [c \in (DOMAIN rm) \cap (DOMAIN fr) |->
        [Recency |-> rm[c].Recency, Monetary |-> rm[c].Monetary,
         Frequency |-> fr[c]]]

\* Mutant of PositiveMonetary: the filter written Monetary >= 0
NonNegativeMonetary(t) ==
    [c \in {c \in DOMAIN t : t[c].Monetary >= 0} |-> t[c]]

\* rfm[rfm['Monetary'] > 0]
PositiveMonetary(t) ==
    [c \in {c \in DOMAIN t : t[c].Monetary > 0} |-> t[c]]

RLabels == <<5, 4, 3, 2, 1>>
FMLabels == <<1, 2, 3, 4, 5>>

RScoreCut(t) == Qcut([c \in DOMAIN t |-> t[c].Recency], 5, RLabels)
FScoreCut(t) == Qcut(RankFirst([c \in DOMAIN t |-> t[c].Frequency]), 5, FMLabels)
MScoreCut(t) == Qcut([c \in DOMAIN t |-> t[c].Monetary], 5, FMLabels)

\* The outcome of build_rfm on table d: the error raised, or the RFM table
BuildRfm(d) ==
    LET t == PositiveMonetary(MergeOnCustomer(RecencyMonetary(d), FrequencyDf(d)))
        R == RScoreCut(t)
        F == FScoreCut(t)
        M == MScoreCut(t)
    IN  IF R.err \/ F.err \/ M.err
        THEN [error |-> "ValueError", value |-> None]
        ELSE [error |-> "",
              value |-> Some(
                [c \in DOMAIN t |->
                    [Recency   |-> t[c].Recency,
                     Monetary  |-> t[c].Monetary,
                     Frequency |-> t[c].Frequency,
                     R_Score   |-> R.codes[c],
                     F_Score   |-> F.codes[c],
                     M_Score   |-> M.codes[c],
                     RFM_Score |-> ScoreStr(R.codes[c]) \o ScoreStr(F.codes[c])
                                      \o ScoreStr(M.codes[c]),
                     Segments  |-> ReplaceRegex(segs,
                                      ScoreStr(R.codes[c]) \o ScoreStr(F.codes[c]))]])]

build_rfm ==
    LET out == BuildRfm(df)
    IN  /\ rfm' = IF out.error = "" THEN out.value ELSE rfm
        /\ ret' = [op |-> "build_rfm", error |-> out.error, value |-> out.value]
        /\ UNCHANGED <<df, clv_table, retention, customer_revenue, grouped_df,
                       customer_country, cleaned_dataset>>

-----------------------------------------------------------------------------
(* CustomerIntelligence.cohort_logic *)

\* The row r with column col set to v (added when the table has no such column)
SetColumn(r, col, v) ==
    [f \in (DOMAIN r) \cup {col} |-> IF f = col THEN v ELSE r[f]]

\* self.df['CohortMonth'] = groupby('CustomerID')['YearMonth'].transform('min')
AssignCohortMonth(d) ==
    {SetColumn(r, "CohortMonth",
               Min({x.YearMonth : x \in RowsOf(d, r.CustomerID)})) : r \in d}

\* Mutant of CohortIndexOf: the + 1 left out
CohortIndexZeroBased(ym, cm) ==
    ((PeriodYear(ym) - PeriodYear(cm)) * 12)
        + (PeriodMonth(ym) - PeriodMonth(cm))

\* (years_diff * 12) + (months_diff + 1)
CohortIndexOf(ym, cm) ==
    ((PeriodYear(ym) - PeriodYear(cm)) * 12)
        + ((PeriodMonth(ym) - PeriodMonth(cm)) + 1)

\* self.df['CohortIndex'] = ...
AssignCohortIndex(d) ==
    {SetColumn(r, "CohortIndex", CohortIndexOf(r.YearMonth, r.CohortMonth)) :
        r \in d}

NaNCell == [nan |-> TRUE, num |-> 0, den |-> 1]

\* groupby(['CohortMonth', 'CohortIndex'])['CustomerID'].nunique().unstack(1):
\* a cell with no row is NaN
CohortData(d) ==
    [index   |-> {r.CohortMonth : r \in d},
     columns |-> {r.CohortIndex : r \in d},
     cell    |-> [k \in {r.CohortMonth : r \in d} \X {r.CohortIndex : r \in d} |->
                    LET members == {r.CustomerID : r \in
                                      {x \in d : /\ x.CohortMonth = k[1]
                                                 /\ x.CohortIndex = k[2]}}
                    IN  IF members = {} THEN NaNCell
                        ELSE [nan |-> FALSE, num |-> Cardinality(members),
                              den |-> 1]]]

\* cohort_data.divide(cohort_data.iloc[:, 0], axis=0)
DivideByFirstColumn(cd) ==
    LET first == Min(cd.columns)
    IN  [index   |-> cd.index,
         columns |-> cd.columns,
         cell    |-> [k \in DOMAIN cd.cell |->
                        LET size == cd.cell[<<k[1], first>>]
                        IN  IF cd.cell[k].nan \/ size.nan THEN NaNCell
                            ELSE [nan |-> FALSE, num |-> cd.cell[k].num,
                                  den |-> size.num]]]

\* The table cohort_logic leaves in self.df and the matrix it returns
CohortLogic(d) ==
    LET d2 == AssignCohortIndex(AssignCohortMonth(d))
    IN  [df |-> d2, retention |-> DivideByFirstColumn(CohortData(d2))]

cohort_logic ==
    LET out == CohortLogic(df)
    IN  /\ df' = out.df
        /\ retention' = Some(out.retention)
        /\ ret' = [op |-> "cohort_logic", error |-> "", value |-> Some(out.retention)]
        /\ UNCHANGED <<rfm, clv_table, customer_revenue, grouped_df,
                       customer_country, cleaned_dataset>>

-----------------------------------------------------------------------------
(* CustomerIntelligence.build_clv_table *)

InvoicesOf(d, c) == {r.InvoiceNo : r \in RowsOf(d, c)}

\* sum of TotalRevenue / number of distinct invoices
Aov(d) ==
    [c \in CustomersOf(d) |->
        <<SumRevenue(RowsOf(d, c)), Cardinality(InvoicesOf(d, c))>>]

\* Mutant of PurchaseFrequency: the cancelled invoices counted too
PurchaseFrequencyAllRows(d) ==
    [c \in CustomersOf(d) |-> Cardinality(InvoicesOf(d, c))]

\* distinct non-cancelled invoices, for the customers that have one
PurchaseFrequency(d) ==
    LET kept == {r \in d : r.CancelledInvoice = FALSE}
    IN  [c \in CustomersOf(kept) |-> Cardinality(InvoicesOf(kept, c))]

\* ((max - min).days + 1) / 30
Lifespan(d) ==
    [c \in CustomersOf(d) |->
        <<(Max({r.InvoiceDate : r \in RowsOf(d, c)})
             - Min({r.InvoiceDate : r \in RowsOf(d, c)})) + 1, 30>>]

\* The frame of the three series on the union of their indexes, with
\* CLV = aov * purchase_frequency * lifespan; a customer missing from
\* purchase_frequency has <NA> there and in CLV
ClvFrame(d) ==
    LET aov == Aov(d)
        pf  == PurchaseFrequency(d)
        ls  == Lifespan(d)
    IN  [c \in (DOMAIN aov) \cup (DOMAIN pf) \cup (DOMAIN ls) |->
            [AOV               |-> aov[c],
             PurchaseFrequency |-> IF c \in DOMAIN pf
                                   THEN [na |-> FALSE, v |-> pf[c]]
                                   ELSE [na |-> TRUE, v |-> 0],
             Lifespan          |-> ls[c],
             CLV               |-> IF c \in DOMAIN pf
                                   THEN [na |-> FALSE,
                                         num |-> aov[c][1] * pf[c] * ls[c][1],
                                         den |-> aov[c][2] * ls[c][2]]
                                   ELSE [na |-> TRUE, num |-> 0, den |-> 1]]]

\* clv_table[clv_table['CLV'] > 0]: <NA> in the mask counts as False
BuildClvTable(d) ==
    LET t == ClvFrame(d)
    IN  [c \in {c \in DOMAIN t : ~t[c].CLV.na /\ t[c].CLV.num * t[c].CLV.den > 0}
            |-> t[c]]

\* Mutant of build_clv_table: the cancelled rows dropped from self.df in place
build_clv_table_in_place ==
    LET out == BuildClvTable(df)
    IN  /\ df' = {r \in df : r.CancelledInvoice = FALSE}
        /\ clv_table' = Some(out)
        /\ ret' = [op |-> "build_clv_table", error |-> "", value |-> Some(out)]
        /\ UNCHANGED <<rfm, retention, customer_revenue, grouped_df,
                       customer_country, cleaned_dataset>>

build_clv_table ==
    LET out == BuildClvTable(df)
    IN  /\ clv_table' = Some(out)
        /\ ret' = [op |-> "build_clv_table", error |-> "", value |-> Some(out)]
        /\ UNCHANGED <<df, rfm, retention, customer_revenue, grouped_df,
                       customer_country, cleaned_dataset>>

-----------------------------------------------------------------------------
(* CustomerIntelligence.pareto_analysis *)

\* groupby('CustomerID')['TotalRevenue'].sum()
RevenueByCustomer(d) == [c \in CustomersOf(d) |-> SumRevenue(RowsOf(d, c))]

\* Mutant of SortDescending: the sort left ascending
SortAscending(rev) ==
    [p \in 1..Cardinality(DOMAIN rev) |->
        LET c == CHOOSE c \in DOMAIN rev :
                    Cardinality({x \in DOMAIN rev :
                        \/ rev[x] < rev[c]
                        \/ (rev[x] = rev[c] /\ x < c)}) = p - 1
        IN  [index |-> p - 1, CustomerID |-> c, TotalRevenue |-> rev[c]]]

\* sort_values(ascending=False).reset_index(): the rows in descending order of
\* revenue (ties in key order), labelled 0, 1, ... in that order
SortDescending(rev) ==
    [p \in 1..Cardinality(DOMAIN rev) |->
        LET c == CHOOSE c \in DOMAIN rev :
                    Cardinality({x \in DOMAIN rev :
                        \/ rev[x] > rev[c]
                        \/ (rev[x] = rev[c] /\ x < c)}) = p - 1
        IN  [index |-> p - 1, CustomerID |-> c, TotalRevenue |-> rev[c]]]

IsPositiveRevenue(row) == row.TotalRevenue > 0

RECURSIVE CumSum(_, _)
CumSum(rows, k) == IF k = 0 THEN 0 ELSE rows[k].TotalRevenue + CumSum(rows, k - 1)

\* The cumulative columns; the customer share is (index label + 1) / len
ParetoColumns(rows) ==
    [k \in 1..Len(rows) |->
        [index          |-> rows[k].index,
         CustomerID     |-> rows[k].CustomerID,
         TotalRevenue   |-> rows[k].TotalRevenue,
         CumRevenue     |-> CumSum(rows, k),
         CumRevenuePct  |-> <<CumSum(rows, k), CumSum(rows, Len(rows))>>,
         CumCustomerPct |-> <<rows[k].index + 1, Len(rows)>>]]

ParetoAnalysis(d) ==
    ParetoColumns(SelectSeq(SortDescending(RevenueByCustomer(d)), IsPositiveRevenue))

pareto_analysis ==
    LET out == ParetoAnalysis(df)
    IN  /\ customer_revenue' = Some(out)
        /\ ret' = [op |-> "pareto_analysis", error |-> "", value |-> Some(out)]
        /\ UNCHANGED <<df, rfm, clv_table, retention, grouped_df,
                       customer_country, cleaned_dataset>>

-----------------------------------------------------------------------------
(* CustomerIntelligence.group_by_segment *)

\* The segment labels in the order groupby('Segments') sorts them
SortedLabels ==
    <<Str_AboutToSleep, Str_AtRisk, Str_CantLose, Str_Champion, Str_Lost,
      Str_LoyalCustomer, Str_NeedAttention, Str_NewCustomers,
      Str_PotentialLoyalist, Str_Promising>>

LabelRank(label) ==
    IF \E k \in DOMAIN SortedLabels : SortedLabels[k] = label
    THEN CHOOSE k \in DOMAIN SortedLabels : SortedLabels[k] = label
    ELSE 0

\* groupby('Segments'): Monetary summed and CustomerID counted per label
SegmentTotals(t) ==
    [g \in {t[c].Segments : c \in DOMAIN t} |->
        LET members == {c \in DOMAIN t : t[c].Segments = g}
        IN  [TotalRevenue   |-> SumOver([c \in members |-> t[c].Monetary], members),
             TotalCustomers |-> Cardinality(members)]]

\* merge, sort_values(by='TotalRevenue', ascending=False), the two shares
SegmentSummary(t) ==
    LET tot == SegmentTotals(t)
        all == SumOver([g \in DOMAIN tot |-> tot[g].TotalRevenue], DOMAIN tot)
    IN  [p \in 1..Cardinality(DOMAIN tot) |->
            LET g == CHOOSE g \in DOMAIN tot :
                        Cardinality({x \in DOMAIN tot :
                            \/ tot[x].TotalRevenue > tot[g].TotalRevenue
                            \/ /\ tot[x].TotalRevenue = tot[g].TotalRevenue
                               /\ LabelRank(x) < LabelRank(g)}) = p - 1
            IN  [Segment        |-> g,
                 TotalRevenue   |-> tot[g].TotalRevenue,
                 TotalCustomers |-> tot[g].TotalCustomers,
                 CustomerPct    |-> <<tot[g].TotalCustomers, Cardinality(DOMAIN t)>>,
                 RevenuePct     |-> <<tot[g].TotalRevenue, all>>]]

\* Mutant of GroupBySegment: an unset rfm taken for an empty table
GroupBySegmentOfEmpty(r) ==
    IF r = None
    THEN [error |-> "", value |-> Some(<<>>)]
    ELSE [error |-> "", value |-> Some(SegmentSummary(r[1]))]

\* The outcome of group_by_segment when self.rfm is r: None has no groupby
GroupBySegment(r) ==
    IF r = None
    THEN [error |-> "AttributeError", value |-> None]
    ELSE [error |-> "", value |-> Some(SegmentSummary(r[1]))]

group_by_segment ==
    LET out == GroupBySegment(rfm)
    IN  /\ grouped_df' = IF out.error = "" THEN out.value ELSE grouped_df
        /\ ret' = [op |-> "group_by_segment", error |-> out.error, value |-> out.value]
        /\ UNCHANGED <<df, rfm, clv_table, retention, customer_revenue,
                       customer_country, cleaned_dataset>>

-----------------------------------------------------------------------------
(* CustomerIntelligence.pareto_analysis_by_country *)

\* The categories of Country in their order
CountryRank(co) == IF co = "France" THEN 1 ELSE 2

\* groupby('Country').agg({'CustomerID': 'count'}): rows per country
CustomersByCountry(d) ==
    [co \in {r.Country : r \in d} |-> Cardinality({r \in d : r.Country = co})]

\* revenue of the non-cancelled rows, for every category of Country
RevenuePerCountry(d) ==
    [co \in {r.Country : r \in d} |->
        SumRevenue({r \in d : r.Country = co /\ r.CancelledInvoice = FALSE})]

ParetoAnalysisByCountry(d) ==
    LET cnt == CustomersByCountry(d)
        rev == RevenuePerCountry(d)
        keys == (DOMAIN cnt) \cap (DOMAIN rev)
        allcnt == SumOver(cnt, keys)
        allrev == SumOver(rev, keys)
    IN  [p \in 1..Cardinality(keys) |->
            LET co == CHOOSE co \in keys :
                        Cardinality({x \in keys :
                            \/ cnt[x] > cnt[co]
                            \/ (cnt[x] = cnt[co] /\ CountryRank(x) < CountryRank(co))})
                          = p - 1
            IN  [Country         |-> co,
                 TotalCustomers  |-> cnt[co],
                 TotalRevenue    |-> rev[co],
                 CustomerPercent |-> <<cnt[co] * 100, allcnt>>,
                 RevenuePercent  |-> <<rev[co] * 100, allrev>>]]

pareto_analysis_by_country ==
    LET out == ParetoAnalysisByCountry(df)
    IN  /\ customer_country' = Some(out)
        /\ ret' = [op |-> "pareto_analysis_by_country", error |-> "",
                   value |-> Some(out)]
        /\ UNCHANGED <<df, rfm, clv_table, retention, customer_revenue,
                       grouped_df, cleaned_dataset>>

-----------------------------------------------------------------------------
(* Input tables *)

\* The rows customer c may have: a purchase in December, a repeat purchase in
\* February, the cancellation of the purchase in January, a cancelled invoice
\* of positive revenue in January
PurchaseRow(c) == CleanRow(c, 1, c, FALSE, (2 * c) + 1)
RepeatRow(c) == CleanRow(c, 2, 60 + c, FALSE, 1)
RefundRow(c) == CleanRow(c, 1, 40, TRUE, 0 - ((2 * c) + 1))
CreditRow(c) == CleanRow(c, 3, 45, TRUE, 2)

RECURSIVE TablesOf(_, _)
\* Every table in which each customer c of 1..n has a subset of its rows[c]
TablesOf(rows, n) ==
    IF n = 0 THEN {{}}
    ELSE {T \cup X : T \in TablesOf(rows, n - 1), X \in SUBSET rows[n]}

ThreeRows(c) == {PurchaseRow(c), RepeatRow(c), RefundRow(c)}
FourRows(c) == {PurchaseRow(c), RepeatRow(c), RefundRow(c), CreditRow(c)}

SmallTables ==
    TablesOf([c \in 1..NumCustomers |-> ThreeRows(c)], NumCustomers) \ {{}}
\* Customers 1..NumCustomers with any of their four rows, and one more customer
\* with a purchase or without
FirstCallTables ==
    {T \cup X : T \in TablesOf([c \in 1..NumCustomers |-> FourRows(c)],
                               NumCustomers),
                X \in SUBSET {PurchaseRow(NumCustomers + 1)}} \ {{}}

\* The regular customers 1..n of an RFM table. Customer c has 1 to 5 invoices,
\* all on one day, the first worth 2c and the others worth nothing; the days
\* are a permutation of 1..n that differs from the customer order.
BaseFrequency(c) == ((c - 1) % 5) + 1
BaseDay(n, c) == ((n + 4 - c) % n) + 1

BaseRows(n) ==
    UNION {{CleanRow(c, k, BaseDay(n, c), FALSE, IF k = 1 THEN 2 * c ELSE 0) :
                k \in 1..BaseFrequency(c)} : c \in 1..n}

\* Rows added to the regular ones: one more invoice (serial 0) of a regular
\* customer or of customer n + 1
ExtraRows(n) ==
    {CleanRow(c, 0, day, cancelled, revenue) :
        c \in 1..(n + 1), day \in 1..n,
        cancelled \in BOOLEAN, revenue \in {-2, 1, 2}}

\* The regular rows of 1..n customers, alone or with one extra row
RfmTables ==
    UNION {{BaseRows(n)} \cup {BaseRows(n) \cup {x} : x \in ExtraRows(n)} :
              n \in 1..NumBase}

\* __init__
InitFields ==
    /\ rfm = None
    /\ clv_table = None
    /\ retention = None
    /\ customer_revenue = None
    /\ grouped_df = None
    /\ customer_country = None
    /\ ret = [op |-> "__init__", error |-> "", value |-> None]
    /\ cleaned_dataset = df

\* The engines are called directly, DataPipeline.run is not running
NoRun == pc = "" /\ calls = <<>> /\ result = None
Direct == UNCHANGED <<pc, calls, result>>

InitRfm == df \in RfmTables /\ InitFields /\ NoRun

\* build_rfm is called once
NextRfm == ret.op = "__init__" /\ build_rfm /\ Direct

SpecRfm == InitRfm /\ [][NextRfm]_vars

Init == df \in SmallTables /\ InitFields /\ NoRun

\* The engines may be called in any order, any number of times
Next ==
    \/ build_rfm /\ Direct
    \/ cohort_logic /\ Direct
    \/ build_clv_table /\ Direct
    \/ pareto_analysis /\ Direct
    \/ group_by_segment /\ Direct
    \/ pareto_analysis_by_country /\ Direct

Spec == Init /\ [][Next]_vars

InitFirstCall == df \in FirstCallTables /\ InitFields /\ NoRun

\* One engine is called, as the first call on the object
NextFirstCall ==
    \/ ret.op = "__init__" /\ build_rfm /\ Direct
    \/ ret.op = "__init__" /\ cohort_logic /\ Direct
    \/ ret.op = "__init__" /\ build_clv_table /\ Direct
    \/ ret.op = "__init__" /\ pareto_analysis /\ Direct
    \/ ret.op = "__init__" /\ group_by_segment /\ Direct
    \/ ret.op = "__init__" /\ pareto_analysis_by_country /\ Direct

SpecFirstCall == InitFirstCall /\ [][NextFirstCall]_vars

-----------------------------------------------------------------------------
(* DataPipeline.run *)

\* The column labels of the table pareto_analysis_by_country returns
CountryColumns ==
    {"Country", "TotalCustomers", "TotalRevenue", "CustomerPercent(%)",
     "RevenuePercent(%)"}

\* The column of a country table row that carries the label key
CellOf(row, key) ==
    CASE key = "Country" -> row.Country
      [] key = "TotalCustomers" -> row.TotalCustomers
      [] key = "TotalRevenue" -> row.TotalRevenue
      [] key = "CustomerPercent(%)" -> row.CustomerPercent
      [] key = "RevenuePercent(%)" -> row.RevenuePercent

\* frame[key] on the country table: the column of that label, KeyError when
\* the table has no column of that label
GetItem(frame, key) ==
    IF key \in CountryColumns
    THEN [error |-> "", value |-> Some([p \in DOMAIN frame |-> CellOf(frame[p], key)])]
    ELSE [error |-> "KeyError", value |-> None]

\* The cleaned tables a run works on
PipelineTables == SmallTables \cup {BaseRows(n) : n \in 1..NumBase}

\* run has cleaned the data and constructed the engine object
InitRun ==
    /\ df \in PipelineTables
    /\ InitFields
    /\ pc = "build_rfm"
    /\ calls = <<>>
    /\ result = None

\* An error raised by the engine call ends the run, otherwise the run goes on
\* to its next call
Proceed(op, next) ==
    /\ calls' = Append(calls, op)
    /\ IF ret'.error # ""
       THEN pc' = "done" /\ result' = Some([error |-> ret'.error, value |-> None])
       ELSE pc' = next /\ result' = result

run_build_rfm ==
    pc = "build_rfm" /\ build_rfm /\ Proceed("build_rfm", "cohort_logic")

run_cohort_logic ==
    pc = "cohort_logic" /\ cohort_logic /\ Proceed("cohort_logic", "build_clv_table")

run_build_clv_table ==
    pc = "build_clv_table" /\ build_clv_table
        /\ Proceed("build_clv_table", "pareto_analysis")

run_pareto_analysis ==
    pc = "pareto_analysis" /\ pareto_analysis
        /\ Proceed("pareto_analysis", "plot_pareto")

\* A chart renderer draws and saves a figure: it returns or fails (it writes
\* to the directory figures), and changes nothing of the engine object
Plot(op, next) ==
    /\ calls' = Append(calls, op)
    /\ \E ok \in BOOLEAN :
          IF ok
          THEN pc' = next /\ result' = result
          ELSE pc' = "done" /\ result' = Some([error |-> "OSError", value |-> None])
    /\ UNCHANGED <<df, rfm, clv_table, retention, customer_revenue, grouped_df,
                   customer_country, ret, cleaned_dataset>>

run_plot_pareto ==
    pc = "plot_pareto" /\ Plot("plot_pareto", "plot_retention")

run_plot_retention ==
    pc = "plot_retention" /\ Plot("plot_retention", "group_by_segment")

run_group_by_segment ==
    pc = "group_by_segment" /\ group_by_segment
        /\ Proceed("group_by_segment", "pareto_analysis_by_country")

run_pareto_analysis_by_country ==
    pc = "pareto_analysis_by_country" /\ pareto_analysis_by_country
        /\ Proceed("pareto_analysis_by_country", "collect")

\* The two subscripts of the country table and the returned dictionary
RunResult ==
    LET customers_by_country == customer_country[1]
        customers_df == GetItem(customers_by_country, "customers_by_country")
        customer_grouping == GetItem(customers_by_country, "customer_grouping")
    IN  IF customers_df.error # ""
        THEN [error |-> customers_df.error, value |-> None]
        ELSE IF customer_grouping.error # ""
        THEN [error |-> customer_grouping.error, value |-> None]
        ELSE [error |-> "",
              value |-> Some([cleaned_dataset   |-> df,
                              rfm_table         |-> rfm[1],
                              retention_df      |-> retention[1],
                              clv_table         |-> clv_table[1],
                              pareto_df         |-> customer_revenue[1],
                              grouped_df        |-> grouped_df[1],
                              country_df        |-> customers_df.value[1],
                              customer_grouping |-> customer_grouping.value[1]])]

run_collect ==
    /\ pc = "collect"
    /\ pc' = "done"
    /\ result' = Some(RunResult)
    /\ UNCHANGED <<df, rfm, clv_table, retention, customer_revenue, grouped_df,
                   customer_country, ret, cleaned_dataset, calls>>

NextRun ==
    \/ run_build_rfm
    \/ run_cohort_logic
    \/ run_build_clv_table
    \/ run_pareto_analysis
    \/ run_plot_pareto
    \/ run_plot_retention
    \/ run_group_by_segment
    \/ run_pareto_analysis_by_country
    \/ run_collect

SpecRun == InitRun /\ [][NextRun]_vars

-----------------------------------------------------------------------------
(* Properties of build_rfm *)

Returned(op) == ret.op = op /\ ret.error = ""
Raised(op) == ret.op = op /\ ret.error # ""

\* The customers build_rfm scores on the table handed to __init__
Qualifying == PositiveMonetary(MergeOnCustomer(RecencyMonetary(cleaned_dataset),
                                               FrequencyDf(cleaned_dataset)))

RevenueOf(c) == SumRevenue(RowsOf(cleaned_dataset, c))
HasKeptInvoice(c) == \E r \in RowsOf(cleaned_dataset, c) : ~r.CancelledInvoice

\* C1 as stated: after build_rfm a customer has an RFM record if and only if
\* the sum of TotalRevenue over all of its rows is > 0.
C1_MemberIffPositiveRevenue ==
    Returned("build_rfm") =>
        \A c \in CustomersOf(cleaned_dataset) :
            (c \in DOMAIN rfm[1]) <=> (RevenueOf(c) > 0)

\* C1 amended: after build_rfm a customer has an RFM record if and only if
\* the sum of TotalRevenue over all of its rows is > 0 and it has at least one
\* non-cancelled row; Monetary of a record is that sum, so no record has
\* Monetary <= 0.
C1_MemberIffPositiveAndKept ==
    Returned("build_rfm") =>
        /\ \A c \in CustomersOf(cleaned_dataset) :
              (c \in DOMAIN rfm[1]) <=> (RevenueOf(c) > 0 /\ HasKeptInvoice(c))
        /\ \A c \in DOMAIN rfm[1] :
              rfm[1][c].Monetary = RevenueOf(c) /\ rfm[1][c].Monetary > 0

\* A returned table that lacks a customer with positive revenue whose rows are
\* all cancelled
C1_Witness ==
    /\ Returned("build_rfm")
    /\ \E c \in CustomersOf(cleaned_dataset) :
          RevenueOf(c) > 0 /\ ~HasKeptInvoice(c) /\ c \notin DOMAIN rfm[1]


ScoreCount(t, col, s) == Cardinality({c \in DOMAIN t : t[c][col] = s})

EqualPopulation(t, col) ==
    LET n == Cardinality(DOMAIN t)
    IN  \A s \in 1..5 :
            ScoreCount(t, col, s) \in {n \div 5, (n + 4) \div 5}

ScoresInRange(t) ==
    \A c \in DOMAIN t :
        t[c].R_Score \in 1..5 /\ t[c].F_Score \in 1..5 /\ t[c].M_Score \in 1..5

Distinct(t, col) ==
    \A c1, c2 \in DOMAIN t : c1 # c2 => t[c1][col] # t[c2][col]

\* C2 as stated: with n >= 5 qualifying customers every score is in 1..5 and,
\* for each of R_Score, F_Score and M_Score, every score value is held by
\* floor(n/5) or ceil(n/5) customers, ties in Recency or Monetary included.
C2_EqualPopulationAlways ==
    (Returned("build_rfm") /\ Cardinality(DOMAIN rfm[1]) >= 5) =>
        /\ ScoresInRange(rfm[1])
        /\ EqualPopulation(rfm[1], "R_Score")
        /\ EqualPopulation(rfm[1], "F_Score")
        /\ EqualPopulation(rfm[1], "M_Score")

\* C2 amended: with n >= 5 qualifying customers every score is in 1..5; every
\* F_Score value is held by floor(n/5) or ceil(n/5) customers; the same holds
\* of R_Score when the Recency values are pairwise distinct and of M_Score
\* when the Monetary values are pairwise distinct.
C2_EqualPopulationWhenDistinct ==
    (Returned("build_rfm") /\ Cardinality(DOMAIN rfm[1]) >= 5) =>
        /\ ScoresInRange(rfm[1])
        /\ EqualPopulation(rfm[1], "F_Score")
        /\ Distinct(rfm[1], "Recency") => EqualPopulation(rfm[1], "R_Score")
        /\ Distinct(rfm[1], "Monetary") => EqualPopulation(rfm[1], "M_Score")

\* A returned table of n >= 6 customers, n not a multiple of 5, with distinct
\* Recency and Monetary values and tied Frequency values
C2_Witness ==
    /\ Returned("build_rfm")
    /\ Cardinality(DOMAIN rfm[1]) >= 6
    /\ Cardinality(DOMAIN rfm[1]) % 5 # 0
    /\ Distinct(rfm[1], "Recency")
    /\ Distinct(rfm[1], "Monetary")
    /\ ~Distinct(rfm[1], "Frequency")

\* The rules as section 4.1 lists them: score ranges <<R low, R high, F low,
\* F high>> and the label
ListedRules ==
    << <<1, 2, 1, 2, Str_Lost>>,
       <<1, 2, 3, 4, Str_AtRisk>>,
       <<1, 2, 5, 5, Str_CantLose>>,
       <<3, 3, 1, 2, Str_AboutToSleep>>,
       <<3, 3, 3, 3, Str_NeedAttention>>,
       <<4, 4, 1, 1, Str_Promising>>,
       <<3, 4, 4, 5, Str_LoyalCustomer>>,
       <<5, 5, 1, 1, Str_NewCustomers>>,
       <<4, 5, 2, 3, Str_PotentialLoyalist>>,
       <<5, 5, 4, 5, Str_Champion>> >>

RuleMatches(k, r, f) ==
    /\ ListedRules[k][1] <= r /\ r <= ListedRules[k][2]
    /\ ListedRules[k][3] <= f /\ f <= ListedRules[k][4]

FirstMatchLabel(r, f) ==
    IF \E k \in DOMAIN ListedRules : RuleMatches(k, r, f)
    THEN ListedRules[Min({k \in DOMAIN ListedRules : RuleMatches(k, r, f)})][5]
    ELSE ScoreStr(r) \o ScoreStr(f)

\* C3: for every (R_Score, F_Score) the label given to the 2-character key is
\* the label of the first listed rule that matches, the raw key when none
\* does; (5,4) is Champion, (1,1) and (2,2) are Lost, (4,1) is Promising.
C3_SegmentIsFirstMatch ==
    /\ \A r, f \in 1..5 :
          ReplaceRegex(segs, ScoreStr(r) \o ScoreStr(f)) = FirstMatchLabel(r, f)
    /\ ReplaceRegex(segs, <<"5","4">>) = Str_Champion
    /\ ReplaceRegex(segs, <<"1","1">>) = Str_Lost
    /\ ReplaceRegex(segs, <<"2","2">>) = Str_Lost
    /\ ReplaceRegex(segs, <<"4","1">>) = Str_Promising
    /\ Returned("build_rfm") =>
          \A c \in DOMAIN rfm[1] :
              rfm[1][c].Segments = FirstMatchLabel(rfm[1][c].R_Score, rfm[1][c].F_Score)

HasSegment(t, r, f, label) ==
    \E c \in DOMAIN t :
        t[c].R_Score = r /\ t[c].F_Score = f /\ t[c].Segments = label

\* A returned table holding a Promising (4,1), a Champion (5,4) and a Lost
\* (2,2) customer
C3_Witness ==
    /\ Returned("build_rfm")
    /\ HasSegment(rfm[1], 4, 1, Str_Promising)
    /\ HasSegment(rfm[1], 5, 4, Str_Champion)
    /\ HasSegment(rfm[1], 2, 2, Str_Lost)

DistinctValues(t, col) == Cardinality({t[c][col] : c \in DOMAIN t})

\* C8 as stated: when the qualifying customers have fewer than 5 distinct
\* values of Recency, of Frequency or of Monetary, build_rfm ends in
\* InsufficientDataError and returns no RFM table.
C8_FewDistinctValuesRaise ==
    (/\ ret.op = "build_rfm"
     /\ \/ DistinctValues(Qualifying, "Recency") < 5
        \/ DistinctValues(Qualifying, "Frequency") < 5
        \/ DistinctValues(Qualifying, "Monetary") < 5) =>
        (ret.error = "InsufficientDataError" /\ ret.value = None)

-----------------------------------------------------------------------------
(* Properties of cohort_logic, pareto_analysis and build_clv_table *)

FirstMonth(c) == Min({r.YearMonth : r \in RowsOf(cleaned_dataset, c)})
CohortSize(cm) ==
    Cardinality({c \in CustomersOf(cleaned_dataset) : FirstMonth(c) = cm})

\* C4: in the matrix cohort_logic returns every cohort has a row, the first
\* column of the pivot is CohortIndex 1, and every cohort's cell at
\* CohortIndex 1 is present with ratio (cohort size) / (cohort size) = 1.
C4_RetentionAtIndexOneIsOne ==
    Returned("cohort_logic") =>
        LET m == ret.value[1]
        IN  /\ m.index = {FirstMonth(c) : c \in CustomersOf(cleaned_dataset)}
            /\ Min(m.columns) = 1
            /\ \A cm \in m.index :
                  /\ ~m.cell[<<cm, 1>>].nan
                  /\ m.cell[<<cm, 1>>].num = m.cell[<<cm, 1>>].den
                  /\ m.cell[<<cm, 1>>].den = CohortSize(cm)
                  /\ CohortSize(cm) > 0

\* A matrix of two cohorts or more, with a present cell at a later index and
\* an absent cell
C4_Witness ==
    /\ Returned("cohort_logic")
    /\ Cardinality(ret.value[1].index) >= 2
    /\ \E k \in DOMAIN ret.value[1].cell :
          k[2] > 1 /\ ~ret.value[1].cell[k].nan
    /\ \E k \in DOMAIN ret.value[1].cell : ret.value[1].cell[k].nan

\* C5: the table pareto_analysis returns holds exactly the customers with
\* total revenue > 0, in descending order of revenue, and its k-th row has
\* CumCustomerPct = k / (number of rows), so the last row has 1.
C5_CustomerShareIsRankOverCount ==
    Returned("pareto_analysis") =>
        LET t == ret.value[1]
        IN  /\ {t[k].CustomerID : k \in DOMAIN t}
                  = {c \in CustomersOf(cleaned_dataset) : RevenueOf(c) > 0}
            /\ Len(t) = Cardinality({c \in CustomersOf(cleaned_dataset) :
                                        RevenueOf(c) > 0})
            /\ \A k \in DOMAIN t : t[k].TotalRevenue = RevenueOf(t[k].CustomerID)
            /\ \A k \in DOMAIN t :
                  k < Len(t) => t[k].TotalRevenue >= t[k + 1].TotalRevenue
            /\ \A k \in DOMAIN t :
                  /\ t[k].CumCustomerPct[2] > 0
                  /\ t[k].CumCustomerPct[1] * Len(t) = k * t[k].CumCustomerPct[2]
            /\ Len(t) > 0 => t[Len(t)].CumCustomerPct[1] = t[Len(t)].CumCustomerPct[2]

\* A returned table of two rows or more, from an input in which a customer
\* with total revenue <= 0 is filtered out
C5_Witness ==
    /\ Returned("pareto_analysis")
    /\ Len(ret.value[1]) >= 2
    /\ \E c \in CustomersOf(cleaned_dataset) : RevenueOf(c) <= 0

KeptInvoiceCount(c) ==
    Cardinality({r.InvoiceNo : r \in {x \in RowsOf(cleaned_dataset, c) :
                                         ~x.CancelledInvoice}})
InvoiceCount(c) == Cardinality({r.InvoiceNo : r \in RowsOf(cleaned_dataset, c)})
LifespanDays(c) ==
    (Max({r.InvoiceDate : r \in RowsOf(cleaned_dataset, c)})
        - Min({r.InvoiceDate : r \in RowsOf(cleaned_dataset, c)})) + 1

\* AOV x PurchaseFrequency x Lifespan > 0, with PurchaseFrequency the number
\* of distinct non-cancelled invoices (0 when there is none): the product is
\* (revenue / invoices) x kept invoices x (days / 30)
ClvIsPositive(c) ==
    (RevenueOf(c) * KeptInvoiceCount(c) * LifespanDays(c)) * (InvoiceCount(c) * 30) > 0

\* C6: the table build_clv_table returns holds exactly the customers with
\* AOV x PurchaseFrequency x Lifespan > 0; a customer whose invoices are all
\* cancelled has no record.
C6_ClvTableIsPositiveClv ==
    Returned("build_clv_table") =>
        /\ DOMAIN ret.value[1]
              = {c \in CustomersOf(cleaned_dataset) : ClvIsPositive(c)}
        /\ \A c \in CustomersOf(cleaned_dataset) :
              KeptInvoiceCount(c) = 0 => c \notin DOMAIN ret.value[1]

\* A returned table with a record, from an input in which a customer of
\* positive revenue has only cancelled invoices
C6_Witness ==
    /\ Returned("build_clv_table")
    /\ DOMAIN ret.value[1] # {}
    /\ \E c \in CustomersOf(cleaned_dataset) :
          RevenueOf(c) > 0 /\ KeptInvoiceCount(c) = 0

-----------------------------------------------------------------------------
(* Properties of the calling order *)

\* C7 as stated: group_by_segment on an object whose rfm is unset ends in
\* NotReadyError, returns no summary and leaves grouped_df unset.
C7_UnsetRfmRaisesNotReady ==
    (ret.op = "group_by_segment" /\ rfm = None) =>
        (ret.error = "NotReadyError" /\ ret.value = None /\ grouped_df = None)

\* C7 amended: group_by_segment on an object whose rfm is unset ends in an
\* error, the AttributeError of looking up groupby on None, returns no summary
\* and leaves grouped_df unset.
C7_UnsetRfmRaisesAttributeError ==
    (ret.op = "group_by_segment" /\ rfm = None) =>
        (ret.error = "AttributeError" /\ ret.value = None /\ grouped_df = None)

\* group_by_segment has failed on an object whose build_rfm was never called,
\* after other engines have run
C7_Witness ==
    /\ Raised("group_by_segment")
    /\ rfm = None
    /\ customer_revenue # None

\* C9 as stated: every engine call leaves the shared table as it was.
C9_TableUnchanged == [][df' = df]_vars

\* C10: whatever was called before, an engine returns what it returns as the
\* first call on the table handed to __init__ (group_by_segment: what it
\* returns right after a first build_rfm).
C10_ResultsIndependentOfOrder ==
    /\ ret.op = "build_rfm" =>
          /\ ret.error = BuildRfm(cleaned_dataset).error
          /\ ret.value = BuildRfm(cleaned_dataset).value
    /\ ret.op = "cohort_logic" =>
          /\ ret.error = ""
          /\ ret.value = Some(CohortLogic(cleaned_dataset).retention)
    /\ ret.op = "build_clv_table" =>
          /\ ret.error = ""
          /\ ret.value = Some(BuildClvTable(cleaned_dataset))
    /\ ret.op = "pareto_analysis" =>
          /\ ret.error = ""
          /\ ret.value = Some(ParetoAnalysis(cleaned_dataset))
    /\ ret.op = "pareto_analysis_by_country" =>
          /\ ret.error = ""
          /\ ret.value = Some(ParetoAnalysisByCountry(cleaned_dataset))
    /\ (ret.op = "group_by_segment" /\ rfm # None) =>
          /\ ret.error = ""
          /\ ret.value = GroupBySegment(BuildRfm(cleaned_dataset).value).value

\* build_rfm has returned a table after cohort_logic has changed the shared
\* table and the other engines have run
C10_Witness ==
    /\ Returned("build_rfm")
    /\ df # cleaned_dataset
    /\ clv_table # None
    /\ customer_revenue # None
    /\ customer_country # None
    /\ grouped_df # None

-----------------------------------------------------------------------------
(* Properties of DataPipeline.run *)

EngineOps ==
    {"build_rfm", "cohort_logic", "build_clv_table", "pareto_analysis",
     "group_by_segment", "pareto_analysis_by_country"}

CallCount(op) == Cardinality({i \in DOMAIN calls : calls[i] = op})

\* Every engine call and both chart renderers have returned
AllCallsReturned ==
    /\ \A op \in EngineOps \cup {"plot_pareto", "plot_retention"} : CallCount(op) >= 1
    /\ ret.op = "pareto_analysis_by_country"
    /\ ret.error = ""

\* C11: a run of DataPipeline.run in which every engine call and both chart
\* renderers succeed calls build_rfm before group_by_segment, calls each of
\* the six engine operations exactly once, and ends by returning a result set
\* that holds the RFM table, the retention matrix, the CLV table, the Pareto
\* table, the segment summary and the country table; it does not end in an
\* error after the last engine call has returned.
C11_RunReturnsResultSet ==
    (AllCallsReturned /\ pc = "done") =>
        /\ \A op \in EngineOps : CallCount(op) = 1
        /\ \E i, j \in DOMAIN calls :
              i < j /\ calls[i] = "build_rfm" /\ calls[j] = "group_by_segment"
        /\ result # None
        /\ result[1].error = ""
        /\ result[1].value[1].rfm_table = rfm[1]
        /\ result[1].value[1].retention_df = retention[1]
        /\ result[1].value[1].clv_table = clv_table[1]
        /\ result[1].value[1].pareto_df = customer_revenue[1]
        /\ result[1].value[1].grouped_df = grouped_df[1]
        /\ result[1].value[1].country_df = customer_country[1]

\* The part of C11 about the calls alone, which the run satisfies
C11_CallsInOrderOnce ==
    (AllCallsReturned /\ pc = "done") =>
        /\ \A op \in EngineOps : CallCount(op) = 1
        /\ \E i, j \in DOMAIN calls :
              i < j /\ calls[i] = "build_rfm" /\ calls[j] = "group_by_segment"

\* A run has ended after all its calls returned
C11_RunEnded == AllCallsReturned /\ pc = "done"

\* A run whose calls all returned has ended in KeyError
C11_RunEndedInKeyError ==
    C11_RunEnded /\ result = Some([error |-> "KeyError", value |-> None])

====
